---- MODULE Spec2Model ----
(***************************************************************************)
(* AutoClick lead management: the Express server (server.js), the          *)
(* schema/seed script (setupDatabase) and the e-mail lead extractor.       *)
(*                                                                         *)
(* Texts.  A JavaScript string is a sequence of symbols.  Texts that an    *)
(* operation inspects character by character (the e-mail fields handed to  *)
(* extractLeadFromEmail) are spelled one character per symbol; literals    *)
(* that are only stored and compared as a whole ('new', 'John Smith') are  *)
(* written as a single symbol.  The values undefined and null are the      *)
(* one-symbol texts Undefined and JsNull, which no spelled text equals.    *)
(* node-postgres sends both as SQL NULL, stored as JsNull.                 *)
(* Integer columns hold NullId (0) for SQL NULL: SERIAL ids start at 1.    *)
(***************************************************************************)
EXTENDS Integers, Sequences, FiniteSets, TLC

VARIABLES
    dealerships,   \* rows of table dealerships, in insertion order
    users,         \* rows of table users, in insertion order
    leads,         \* rows of table leads, in insertion order
    seqs,          \* the SERIAL sequences: last value handed out, per table
    seedRuns,      \* completed runs of setupDatabase (0: no table exists yet)
    now,           \* the clock, in days
    localStorage,  \* the client's localStorage 'token' item: the JWT of its last login
    req,           \* the request the server handled last
    res,           \* the response it gave
    hits,          \* express-rate-limit: requests counted for the client in this window
    nodeEnv,       \* process.env.NODE_ENV
    buildExists,   \* whether client/build/index.html exists on disk
    ext            \* the lead extractor's arguments and result (ExtractSpec)

vars == <<dealerships, users, leads, seqs, seedRuns, now, localStorage, req, res,
          hits, nodeEnv, buildExists, ext>>

(***************************************************************************)
(* Bounds of the model.                                                    *)
(***************************************************************************)
MaxSeedRuns == 2    \* runs of the seed script
MaxInserts == 1     \* lead INSERTs attempted by the server's handlers
MaxDay == 1         \* the clock runs over days 0..MaxDay
MaxOver == 1        \* requests counted beyond the rate limit

(***************************************************************************)
(* Texts and values.                                                       *)
(***************************************************************************)
Lit(s) == <<s>>
Undefined == <<"undefined-value">>
JsNull == <<"null-value">>
NullId == 0
Nullish(x) == x = Undefined \/ x = JsNull
\* node-postgres prepareValue: undefined and null are both sent as NULL
PgParam(x) == IF Nullish(x) THEN JsNull ELSE x
\* SQL "a = b": NULL on either side never compares equal
SqlEqId(a, b) == a # NullId /\ b # NullId /\ a = b
SqlEqText(a, b) == a # JsNull /\ b # JsNull /\ a = b
\* JavaScript truthiness of a text: undefined, null and '' are falsy
Truthy(x) == ~Nullish(x) /\ x # <<>>
Range(s) == {s[i] : i \in 1..Len(s)}

(***************************************************************************)
(* bcryptjs.  A hash records its salt and what it hashes; compare rejects  *)
(* (throws) unless both arguments are strings.                             *)
(***************************************************************************)
BcryptHash(pw, salt) == [salt |-> salt, of |-> pw]
BcryptCompareThrows(pw) == Nullish(pw)
\* mutant of BcryptCompare: the handler's negation is lost
BcryptCompareInverted(pw, hash) == hash.of # pw
BcryptCompare(pw, hash) == hash.of = pw

(***************************************************************************)
(* The seed script's literals.                                             *)
(***************************************************************************)
AdminEmail == Lit("admin@autoclick.com")
RepEmail == Lit("rep@autoclick.com")
SeedPassword == Lit("password123")
SeedDealershipName == Lit("AutoClick Motors")
Admin == Lit("admin")
SalesRep == Lit("sales_rep")
New == Lit("new")
Medium == Lit("medium")
High == Lit("high")
EmailSource == Lit("email")

sampleLeads ==
    << [name |-> Lit("John Smith"), email |-> Lit("john.smith@email.com"),
        phone |-> Lit("(555) 123-4567"), vehicle |-> Lit("Toyota Camry"),
        source |-> Lit("website"),
        notes |-> Lit("Interested in 2024 model, financing needed"),
        priority |-> High],
       [name |-> Lit("Sarah Johnson"), email |-> Lit("sarah.j@email.com"),
        phone |-> Lit("(555) 987-6543"), vehicle |-> Lit("Honda Accord"),
        source |-> Lit("email"),
        notes |-> Lit("Looking for reliable family car"),
        priority |-> Medium],
       [name |-> Lit("Mike Wilson"), email |-> Lit("mike.wilson@email.com"),
        phone |-> Lit("(555) 456-7890"), vehicle |-> Lit("Ford F-150"),
        source |-> Lit("phone"),
        notes |-> Lit("Needs truck for work, cash buyer"),
        priority |-> High] >>

(***************************************************************************)
(* Tables.  A statement that fails leaves the rows as they were.           *)
(***************************************************************************)
TablesExist == seedRuns > 0

DealershipIds(ds) == {ds[i].id : i \in 1..Len(ds)}
UserIds(us) == {us[i].id : i \in 1..Len(us)}

\* INSERT INTO dealerships ... ON CONFLICT DO NOTHING RETURNING id.
\* The table's only unique index is its primary key, and id comes fresh from
\* the sequence, so the row conflicts exactly when its id is already taken.
InsertDealershipConflicts(ds, id) == id \in DealershipIds(ds)
InsertDealership(ds, id, day) ==
    IF InsertDealershipConflicts(ds, id)
    THEN ds
    ELSE Append(ds, [id |-> id, name |-> SeedDealershipName,
                     address |-> Lit("123 Main Street, Anytown, USA"),
                     phone |-> Lit("(555) 123-4567"),
                     email |-> Lit("info@autoclick.com"),
                     created_at |-> day])

\* INSERT INTO users ... ON CONFLICT (email) DO UPDATE SET password, name,
\* role, dealership_id.  The id default is evaluated before the conflict is
\* seen, so the sequence advances either way.
UpsertUser(us, id, email, password, name, role, dealershipId, day) ==
    IF \E i \in 1..Len(us) : us[i].email = email
    THEN [i \in 1..Len(us) |->
            IF us[i].email = email
            THEN [us[i] EXCEPT !.password = password, !.name = name,
                               !.role = role, !.dealership_id = dealershipId]
            ELSE us[i]]
    ELSE Append(us, [id |-> id, email |-> email, password |-> password,
                     name |-> name, role |-> role,
                     dealership_id |-> dealershipId,
                     created_at |-> day, updated_at |-> day])

UserByEmail(us, email) ==
    SelectSeq(us, LAMBDA u : SqlEqText(u.email, PgParam(email)))
UserById(us, id) == SelectSeq(us, LAMBDA u : SqlEqId(u.id, id))

\* A row for INSERT INTO leads; every column the statement names is given.
LeadRow(id, name, email, phone, vehicle, source, notes, priority, status, assignedTo, dealershipId, createdAt, day) ==
    [id |-> id, customer_name |-> PgParam(name),
     customer_email |-> PgParam(email), customer_phone |-> PgParam(phone),
     vehicle_interest |-> PgParam(vehicle), source |-> PgParam(source),
     notes |-> PgParam(notes), priority |-> PgParam(priority),
     status |-> PgParam(status), assigned_to |-> assignedTo,
     dealership_id |-> dealershipId, created_at |-> createdAt,
     updated_at |-> day]

\* customer_name is NOT NULL; assigned_to and dealership_id are foreign keys
\* (a NULL reference is allowed).
LeadRowAccepted(row, ds, us) ==
    /\ row.customer_name # JsNull
    /\ row.assigned_to = NullId \/ row.assigned_to \in UserIds(us)
    /\ row.dealership_id = NullId \/ row.dealership_id \in DealershipIds(ds)

\* INSERT INTO leads ... ON CONFLICT DO NOTHING: as for dealerships, the only
\* unique index is the primary key.
InsertLeadConflicts(ls, id) == \E i \in 1..Len(ls) : ls[i].id = id
InsertSampleLead(ls, id, lead, adminUserId, dealershipId, day) ==
    IF InsertLeadConflicts(ls, id)
    THEN ls
    ELSE Append(ls, LeadRow(id, lead.name, lead.email, lead.phone,
                            lead.vehicle, lead.source, lead.notes,
                            lead.priority, New, adminUserId, dealershipId,
                            day, day))

(***************************************************************************)
(* setupDatabase: one run of the seed script, start to end.                *)
(***************************************************************************)
RECURSIVE InsertSampleLeads(_, _, _, _, _, _)
InsertSampleLeads(ls, lastId, k, adminUserId, dealershipId, day) ==
    IF k > Len(sampleLeads)
    THEN ls
    ELSE InsertSampleLeads(
             InsertSampleLead(ls, lastId + 1, sampleLeads[k], adminUserId,
                              dealershipId, day),
             lastId + 1, k + 1, adminUserId, dealershipId, day)

setupDatabase(adminSalt, repSalt) ==
    LET newId == seqs.dealerships + 1
        ds == InsertDealership(dealerships, newId, now)
        returned == Len(ds) > Len(dealerships)
        \* rows.length > 0 ? rows[0].id : SELECT id FROM dealerships LIMIT 1
        dealershipId == IF returned THEN newId ELSE dealerships[1].id
        us1 == UpsertUser(users, seqs.users + 1, AdminEmail,
                          BcryptHash(SeedPassword, adminSalt),
                          Lit("Admin User"), Admin, dealershipId, now)
        us2 == UpsertUser(us1, seqs.users + 2, RepEmail,
                          BcryptHash(SeedPassword, repSalt),
                          Lit("Sales Representative"), SalesRep,
                          dealershipId, now)
        adminUserId == UserByEmail(us2, AdminEmail)[1].id
    IN  /\ seedRuns < MaxSeedRuns
        /\ dealerships' = ds
        /\ users' = us2
        /\ leads' = InsertSampleLeads(leads, seqs.leads, 1, adminUserId,
                                      dealershipId, now)
        /\ seqs' = [dealerships |-> newId, users |-> seqs.users + 2,
                    leads |-> seqs.leads + Len(sampleLeads)]
        /\ seedRuns' = seedRuns + 1
        /\ UNCHANGED <<now, localStorage, req, res, hits, nodeEnv, buildExists, ext>>

\* bcrypt.hash draws a random salt: each call gets one no earlier call got
Seed == setupDatabase(2 * seedRuns + 1, 2 * seedRuns + 2)

(***************************************************************************)
(* Characters and the string methods extractLeadFromEmail uses.            *)
(***************************************************************************)
LowerSeq ==
    <<"a", "b", "c", "d", "e", "f", "g", "h", "i", "j", "k", "l", "m", "n",
    "o", "p", "q", "r", "s", "t", "u", "v", "w", "x", "y", "z">>
UpperSeq ==
    <<"A", "B", "C", "D", "E", "F", "G", "H", "I", "J", "K", "L", "M", "N",
    "O", "P", "Q", "R", "S", "T", "U", "V", "W", "X", "Y", "Z">>
Lower == Range(LowerSeq)
Upper == Range(UpperSeq)
Digit == {"0", "1", "2", "3", "4", "5", "6", "7", "8", "9"}
WordChar == Lower \cup Upper \cup Digit \cup {"_"}

Min(a, b) == IF a <= b THEN a ELSE b

\* String.prototype.toLowerCase
ToLowerChar(c) ==
    IF c \in Upper
    THEN LowerSeq[CHOOSE i \in 1..Len(UpperSeq) : UpperSeq[i] = c]
    ELSE c
toLowerCase(s) == [i \in 1..Len(s) |-> ToLowerChar(s[i])]

\* String.prototype.includes
includes(s, v) ==
    \E i \in 0..(Len(s) - Len(v)) : SubSeq(s, i + 1, i + Len(v)) = v

\* String.prototype.substring(0, n)
\* mutant of substring0: the text is not cut at n
substring0Uncut(s, n) == s
substring0(s, n) == SubSeq(s, 1, Min(n, Len(s)))

\* s.split('@')[0]: the text before the first '@', all of s when it has none
FirstAt(s) ==
    IF \E i \in 1..Len(s) : s[i] = "@"
    THEN CHOOSE i \in 1..Len(s) : s[i] = "@" /\ \A j \in 1..(i - 1) : s[j] # "@"
    ELSE Len(s) + 1
splitAt0(s) == SubSeq(s, 1, FirstAt(s) - 1)

\* s.replace(/[._]/g, ' ')
replaceDotUnderscore(s) ==
    [i \in 1..Len(s) |-> IF s[i] \in {".", "_"} THEN " " ELSE s[i]]

\* the template literal's ${x}
TemplateText(x) ==
    IF x = Undefined THEN Lit("undefined")
    ELSE IF x = JsNull THEN Lit("null")
    ELSE x

(***************************************************************************)
(* The two regular expressions, matched as the engine matches them: the    *)
(* leftmost start, and from it the greedy choice that lets the rest match. *)
(***************************************************************************)
\* \b between s[i] and s[i+1] (i = 0: before the text, i = Len(s): after it)
WordBoundary(s, i) ==
    (i >= 1 /\ s[i] \in WordChar) # (i < Len(s) /\ s[i + 1] \in WordChar)

AllIn(s, a, b, class) == \A k \in a..b : k <= Len(s) /\ s[k] \in class

\* phoneRegex = /\b\d{3}[-.]?\d{3}[-.]?\d{4}\b/ : the end of the match that
\* starts at p, 0 when none does
PhoneSep(s, k) == IF k <= Len(s) /\ s[k] \in {"-", "."} THEN 1 ELSE 0
PhoneEnd(s, p) ==
    LET a == p + 3 + PhoneSep(s, p + 3)
        b == a + 3 + PhoneSep(s, a + 3)
        e == b + 3
    IN  IF /\ WordBoundary(s, p - 1)
           /\ AllIn(s, p, p + 2, Digit)
           /\ AllIn(s, a, a + 2, Digit)
           /\ AllIn(s, b, b + 3, Digit)
           /\ WordBoundary(s, e)
        THEN e
        ELSE 0
phoneMatch(s) ==
    LET starts == {p \in 1..Len(s) : PhoneEnd(s, p) > 0}
    IN  IF starts = {}
        THEN Undefined
        ELSE LET p == CHOOSE q \in starts : \A r \in starts : q <= r
             IN  SubSeq(s, p, PhoneEnd(s, p))

\* emailRegex = /\b[A-Za-z0-9._%+-]+@[A-Za-z0-9.-]+\.[A-Z|a-z]{2,}\b/
LocalChar == Lower \cup Upper \cup Digit \cup {".", "_", "%", "+", "-"}
DomainChar == Lower \cup Upper \cup Digit \cup {".", "-"}
TldChar == Lower \cup Upper \cup {"|"}
\* the last index of the longest run of class characters that starts at k
\* (k - 1 when s[k] is not one)
RunEnd(s, k, class) ==
    CHOOSE j \in (k - 1)..Len(s) :
        /\ AllIn(s, k, j, class)
        /\ j = Len(s) \/ s[j + 1] \notin class
\* The end of the match that starts at p, 0 when none does.  The local part
\* is the whole run of local characters from p, since '@' must follow it and
\* is not one of them; the '.' is the last one in the run of domain
\* characters after which a top-level part can end, and that part is the
\* longest that ends at a word boundary (greedy, then backtracking).
EmailTldEnds(s, dot) ==
    {e \in (dot + 2)..RunEnd(s, dot + 1, TldChar) : WordBoundary(s, e)}
EmailDots(s, at) ==
    {dot \in (at + 2)..RunEnd(s, at + 1, DomainChar) :
        s[dot] = "." /\ EmailTldEnds(s, dot) # {}}
EmailEnd(s, p) ==
    IF ~(WordBoundary(s, p - 1) /\ s[p] \in LocalChar) THEN 0
    ELSE LET at == RunEnd(s, p, LocalChar) + 1
         IN  IF ~(at <= Len(s) /\ s[at] = "@") THEN 0
             ELSE LET dots == EmailDots(s, at)
                      dot == CHOOSE d \in dots : \A x \in dots : x <= d
                      ends == EmailTldEnds(s, dot)
                  IN  IF dots = {} THEN 0
                      ELSE CHOOSE e \in ends : \A x \in ends : x <= e
emailMatch(s) ==
    LET starts == {p \in 1..Len(s) : EmailEnd(s, p) > 0}
    IN  IF starts = {}
        THEN Undefined
        ELSE LET p == CHOOSE q \in starts : \A r \in starts : q <= r
             IN  SubSeq(s, p, EmailEnd(s, p))

(***************************************************************************)
(* extractLeadFromEmail(from, subject, body).                              *)
(***************************************************************************)
vehicles ==
    << <<"t", "o", "y", "o", "t", "a">>,
       <<"h", "o", "n", "d", "a">>,
       <<"f", "o", "r", "d">>,
       <<"c", "h", "e", "v", "r", "o", "l", "e", "t">>,
       <<"n", "i", "s", "s", "a", "n">>,
       <<"b", "m", "w">>,
       <<"m", "e", "r", "c", "e", "d", "e", "s">>,
       <<"a", "u", "d", "i">> >>
NotSpecified == Lit("Not specified")
BodyPrefixLen == 500

\* vehicles.find(v => body.toLowerCase().includes(v) ||
\*                    subject.toLowerCase().includes(v)), from the k-th word on.
\* The callback reads subject only when body does not hold the word; reading
\* it throws when subject is undefined or null.
RECURSIVE vehicleFind(_, _, _)
\* mutant of vehicleFind: the subject is never searched
vehicleFindBodyOnly(k, subject, body) ==
    LET ks == {j \in k..Len(vehicles) : includes(toLowerCase(body), vehicles[j])}
    IN  IF ks = {} THEN [throws |-> FALSE, found |-> Undefined]
        ELSE [throws |-> FALSE,
              found |-> vehicles[CHOOSE j \in ks : \A m \in ks : j <= m]]
vehicleFind(k, subject, body) ==
    IF k > Len(vehicles) THEN [throws |-> FALSE, found |-> Undefined]
    ELSE IF includes(toLowerCase(body), vehicles[k])
         THEN [throws |-> FALSE, found |-> vehicles[k]]
    ELSE IF Nullish(subject) THEN [throws |-> TRUE, found |-> Undefined]
    ELSE IF includes(toLowerCase(subject), vehicles[k])
         THEN [throws |-> FALSE, found |-> vehicles[k]]
    ELSE vehicleFind(k + 1, subject, body)

\* the value returned by the catch block
ExtractNull ==
    [isNull |-> TRUE, name |-> Undefined, email |-> Undefined,
     phone |-> Undefined, vehicle |-> Undefined, notes |-> Undefined]

notesOf(subject, body) ==
    Lit("Email Subject: ") \o TemplateText(subject)
        \o Lit("\n\nEmail Body: ") \o substring0(body, BodyPrefixLen)
        \o Lit("...")

extractLeadFromEmail(from, subject, body) ==
    IF Nullish(from) THEN ExtractNull            \* from.match throws
    ELSE IF Nullish(body) THEN ExtractNull       \* body.match throws
    ELSE LET vehicleMatch == vehicleFind(1, subject, body)
         IN  IF vehicleMatch.throws THEN ExtractNull
             ELSE [isNull |-> FALSE,
                   name |-> replaceDotUnderscore(splitAt0(from)),
                   email |-> emailMatch(from),
                   phone |-> phoneMatch(body),
                   vehicle |-> IF Truthy(vehicleMatch.found)
                               THEN vehicleMatch.found ELSE NotSpecified,
                   notes |-> notesOf(subject, body)]

(***************************************************************************)
(* jsonwebtoken and the auth middleware.                                   *)
(***************************************************************************)
TokenDays == 1                  \* expiresIn: '24h'
GoodSig == "HS256(JWT_SECRET)"
\* jwt.sign(payload, secret, {expiresIn})
JwtSign(payload, day) ==
    [userId |-> payload.userId, email |-> payload.email, role |-> payload.role,
     iat |-> day, exp |-> day + TokenDays, sig |-> GoodSig]
\* mutant of JwtVerifyErr: expiry is not checked
JwtVerifyErrNoExpiry(token, day) == token.sig # GoodSig
\* jwt.verify's err: a bad signature, or the token has expired
JwtVerifyErr(token, day) == token.sig # GoodSig \/ day >= token.exp
\* the decoded payload handed to the callback
JwtDecoded(token) ==
    [userId |-> token.userId, email |-> token.email, role |-> token.role,
     iat |-> token.iat, exp |-> token.exp]
\* req.user.<field> for an integer field: undefined (sent as NULL) when the
\* payload has no such field
UserClaimId(user, field) ==
    IF field \in DOMAIN user THEN user[field] ELSE NullId

\* Authorization headers: absent, "Bearer" alone, "Bearer <token>"
NoAuth == [given |-> FALSE, rest |-> <<>>]
BearerOnly == [given |-> TRUE, rest |-> <<>>]
Bearer(t) == [given |-> TRUE, rest |-> <<t>>]
\* a token that JWT_SECRET did not sign
ForgedJwt ==
    [userId |-> 1, email |-> AdminEmail, role |-> Admin, iat |-> 0,
     exp |-> TokenDays, sig |-> "forged"]
DeniedHeaders == {NoAuth, BearerOnly, Bearer(ForgedJwt)}
AuthHeaders == DeniedHeaders \cup {Bearer(t) : t \in Range(localStorage)}

NoUser == [userId |-> NullId, email |-> Undefined, role |-> Undefined]

\* authenticateToken: what it answers, or that it calls next() with req.user
authenticateToken(authHeader) ==
    LET hasToken == authHeader.given /\ Len(authHeader.rest) >= 1
    IN  IF ~hasToken
        THEN [next |-> FALSE, status |-> 401, user |-> NoUser]
        ELSE IF JwtVerifyErr(authHeader.rest[1], now)
        THEN [next |-> FALSE, status |-> 403, user |-> NoUser]
        ELSE [next |-> TRUE, status |-> 0, user |-> JwtDecoded(authHeader.rest[1])]

(***************************************************************************)
(* Requests and responses.  res.ran tells whether the route's handler ran. *)
(***************************************************************************)
Request(route, authHeader, params, query, body) ==
    [route |-> route, authorization |-> authHeader, user |-> NoUser,
     params |-> params, query |-> query, body |-> body]
Response(route, status, body) ==
    [route |-> route, status |-> status, ran |-> TRUE, body |-> body]
NoParams == [id |-> NullId]
NoQuery == [status |-> Undefined, dealership_id |-> NullId]
NoBody == [none |-> TRUE]

\* a protected route: app.<method>(path, authenticateToken, handler)
\* handled is the handler's step on Authenticated(r), taken only after next()
Authenticated(r) == [r EXCEPT !.user = authenticateToken(r.authorization).user]
Protected(r, handled) ==
    LET a == authenticateToken(r.authorization)
    IN  IF a.next
        THEN handled
        ELSE /\ req' = r
             /\ res' = [route |-> r.route, status |-> a.status, ran |-> FALSE,
                        body |-> NoBody]
             /\ UNCHANGED <<dealerships, users, leads, seqs, localStorage>>

Frame == UNCHANGED <<seedRuns, now, hits, nodeEnv, buildExists, ext>>

(***************************************************************************)
(* POST /api/auth/login                                                    *)
(***************************************************************************)
loginHandler(r) ==
    LET rows == UserByEmail(users, r.body.email)
        user == rows[1]
        token == JwtSign([userId |-> user.id, email |-> user.email,
                          role |-> user.role], now)
    IN  /\ req' = r
        /\ res' =
             IF ~TablesExist
             THEN Response(r.route, 500, [error |-> Lit("Login failed")])
             ELSE IF Len(rows) = 0
             THEN Response(r.route, 401, [error |-> Lit("Invalid credentials")])
             ELSE IF BcryptCompareThrows(r.body.password)
             THEN Response(r.route, 500, [error |-> Lit("Login failed")])
             ELSE IF ~BcryptCompare(r.body.password, user.password)
             THEN Response(r.route, 401, [error |-> Lit("Invalid credentials")])
             ELSE Response(r.route, 200,
                      [token |-> token,
                       user |-> [id |-> user.id, email |-> user.email,
                                 name |-> user.name, role |-> user.role,
                                 dealership_id |-> user.dealership_id]])
        /\ UNCHANGED <<dealerships, users, leads, seqs>>

LoginEmails == {AdminEmail, RepEmail, Lit("nobody@autoclick.com")}
LoginPasswords == {SeedPassword, Lit("letmein"), Undefined}
\* The login page posts the form; when the response is ok it keeps
\* data.token as its localStorage 'token' item.
Login ==
    \E e \in LoginEmails, pw \in LoginPasswords :
        /\ loginHandler(Request("POST /api/auth/login", NoAuth, NoParams,
                                NoQuery, [email |-> e, password |-> pw]))
        /\ localStorage' = IF res'.status = 200 THEN <<res'.body.token>>
                           ELSE localStorage
        /\ Frame

(***************************************************************************)
(* GET /api/auth/profile                                                   *)
(***************************************************************************)
profileHandler(r) ==
    LET rows == UserById(users, r.user.userId)
    IN  /\ req' = r
        /\ res' =
             IF ~TablesExist
             THEN Response(r.route, 500, [error |-> Lit("Failed to get profile")])
             ELSE Response(r.route, 200,
                      IF Len(rows) = 0 THEN NoBody
                      ELSE [id |-> rows[1].id, email |-> rows[1].email,
                            name |-> rows[1].name, role |-> rows[1].role,
                            dealership_id |-> rows[1].dealership_id])
        /\ UNCHANGED <<dealerships, users, leads, seqs, localStorage>>

Profile ==
    \E h \in AuthHeaders :
        /\ LET r == Request("GET /api/auth/profile", h, NoParams, NoQuery, NoBody)
           IN  Protected(r, profileHandler(Authenticated(r)))
        /\ Frame

(***************************************************************************)
(* GET /api/leads                                                          *)
(***************************************************************************)
\* mutant of leadsWhere: the role is not looked at, so every caller is
\* filtered the way an admin is
leadsWhereAnyRole(user, query, l) ==
    /\ query.dealership_id # NullId
            => SqlEqId(l.dealership_id, query.dealership_id)
    /\ Truthy(query.status) => SqlEqText(l.status, query.status)

\* The WHERE clause the handler builds.  A non-admin is filtered by
\* req.user.dealership_id, an admin by the query's dealership_id when given.
leadsWhere(user, query, l) ==
    /\ IF user.role # Admin
       THEN SqlEqId(l.dealership_id, UserClaimId(user, "dealership_id"))
       ELSE IF query.dealership_id # NullId
       THEN SqlEqId(l.dealership_id, query.dealership_id)
       ELSE TRUE
    /\ Truthy(query.status) => SqlEqText(l.status, query.status)

\* The rows of the answer; their order (created_at DESC, ties in any order)
\* is not part of the model.
getLeadsHandler(r) ==
    /\ req' = r
    /\ res' =
         IF ~TablesExist
         THEN Response(r.route, 500, [error |-> Lit("Failed to get leads")])
         ELSE Response(r.route, 200,
                  Range(SelectSeq(leads, LAMBDA l : leadsWhere(r.user, r.query, l))))
    /\ UNCHANGED <<dealerships, users, leads, seqs, localStorage>>

QueryStatuses == {Undefined, New}
QueryDealerships == {NullId, 1, 2}
GetLeads ==
    \E h \in AuthHeaders, st \in QueryStatuses, d \in QueryDealerships :
        /\ h \in DeniedHeaders => st = Undefined /\ d = 1
        /\ LET r == Request("GET /api/leads", h, NoParams, [status |-> st, dealership_id |-> d], NoBody)
           IN  Protected(r, getLeadsHandler(Authenticated(r)))
        /\ Frame

(***************************************************************************)
(* POST /api/leads                                                         *)
(***************************************************************************)
\* lead INSERTs the handlers have attempted so far (each takes an id)
HandlerInserts == seqs.leads - Len(sampleLeads) * seedRuns

\* priority || 'medium'
OrMedium(priority) == IF Truthy(priority) THEN priority ELSE Medium

postLeadRow(r) ==
    LeadRow(seqs.leads + 1, r.body.customer_name, r.body.customer_email,
            r.body.customer_phone, r.body.vehicle_interest, r.body.source,
            r.body.notes, OrMedium(r.body.priority), New, r.user.userId,
            UserClaimId(r.user, "dealership_id"), now, now)

postLeadHandler(r) ==
    LET row == postLeadRow(r)
        inserted == TablesExist /\ LeadRowAccepted(row, dealerships, users)
    IN  /\ req' = r
        /\ res' = IF inserted
                  THEN Response(r.route, 201, row)
                  ELSE Response(r.route, 500,
                                [error |-> Lit("Failed to create lead")])
        /\ leads' = IF inserted THEN Append(leads, row) ELSE leads
        /\ seqs' = IF TablesExist
                   THEN [seqs EXCEPT !.leads = seqs.leads + 1]
                   ELSE seqs
        /\ UNCHANGED <<dealerships, users, localStorage>>

PostAnn(p) ==
    [customer_name |-> Lit("Ann Lee"), customer_email |-> Lit("ann@x.io"),
     customer_phone |-> Undefined, vehicle_interest |-> Lit("Audi A4"),
     source |-> Lit("manual"), notes |-> Undefined, priority |-> p]
PostBodies ==
    { PostAnn(p) : p \in {Undefined, High, <<>>} }
    \cup
    { [customer_name |-> Undefined, customer_email |-> Undefined,
       customer_phone |-> Undefined, vehicle_interest |-> Undefined,
       source |-> Undefined, notes |-> Undefined, priority |-> Undefined] }
PostLead ==
    /\ HandlerInserts < MaxInserts
    /\ \E h \in AuthHeaders, b \in PostBodies :
        /\ h \in DeniedHeaders => b = PostAnn(High)
        /\ LET r == Request("POST /api/leads", h, NoParams, NoQuery, b)
           IN  Protected(r, postLeadHandler(Authenticated(r)))
        /\ Frame

(***************************************************************************)
(* PUT /api/leads/:id                                                      *)
(***************************************************************************)
Coalesce(x, old) == IF PgParam(x) # JsNull THEN x ELSE old
CoalesceId(x, old) == IF x # NullId THEN x ELSE old

\* WHERE id = $9 AND dealership_id = $10
putWhere(user, id, l) ==
    /\ SqlEqId(l.id, id)
    /\ SqlEqId(l.dealership_id, UserClaimId(user, "dealership_id"))

putSet(b, l, day) ==
    [l EXCEPT !.customer_name = Coalesce(b.customer_name, @),
              !.customer_email = Coalesce(b.customer_email, @),
              !.customer_phone = Coalesce(b.customer_phone, @),
              !.vehicle_interest = Coalesce(b.vehicle_interest, @),
              !.status = Coalesce(b.status, @),
              !.notes = Coalesce(b.notes, @),
              !.priority = Coalesce(b.priority, @),
              !.assigned_to = CoalesceId(b.assigned_to, @),
              !.updated_at = day]

putLeadHandler(r) ==
    LET updated == [i \in 1..Len(leads) |->
                      IF putWhere(r.user, r.params.id, leads[i])
                      THEN putSet(r.body, leads[i], now)
                      ELSE leads[i]]
        rows == SelectSeq(updated, LAMBDA l : putWhere(r.user, r.params.id, l))
        accepted == \A i \in 1..Len(updated) :
                        LeadRowAccepted(updated[i], dealerships, users)
        done == TablesExist /\ accepted
    IN  /\ req' = r
        /\ res' = IF ~done
                  THEN Response(r.route, 500,
                                [error |-> Lit("Failed to update lead")])
                  ELSE IF Len(rows) = 0
                  THEN Response(r.route, 404, [error |-> Lit("Lead not found")])
                  ELSE Response(r.route, 200, rows[1])
        /\ leads' = IF done THEN updated ELSE leads
        /\ UNCHANGED <<dealerships, users, seqs, localStorage>>

PutBody(st, a) ==
    [customer_name |-> Undefined, customer_email |-> Undefined,
     customer_phone |-> Undefined, vehicle_interest |-> Undefined,
     status |-> st, notes |-> Undefined, priority |-> Undefined,
     assigned_to |-> a]
PutBodies == {PutBody(Lit("contacted"), NullId), PutBody(Undefined, 2)}
\* ids: the first lead, the newest, and one no lead has
PutIds == {1, seqs.leads, seqs.leads + 1} \ {0}
PutLead ==
    \E h \in AuthHeaders, id \in PutIds, b \in PutBodies :
        /\ h \in DeniedHeaders => id = 1 /\ b = PutBody(Lit("contacted"), NullId)
        /\ LET r == Request("PUT /api/leads/:id", h, [id |-> id], NoQuery, b)
           IN  Protected(r, putLeadHandler(Authenticated(r)))
        /\ Frame

(***************************************************************************)
(* POST /api/process-email                                                 *)
(***************************************************************************)
DefaultDealership == 1          \* "1, // Default dealership"

\* new Date(receivedDate): an Invalid Date when receivedDate is absent.
\* node-postgres writes an Invalid Date as text that PostgreSQL rejects when
\* it binds the parameter, before the row takes an id.
NoDate == [given |-> FALSE, day |-> 0]
DateOn(d) == [given |-> TRUE, day |-> d]
\* mutant of NewDate: an absent receivedDate becomes a valid date
NewDateNeverInvalid(x) == [valid |-> TRUE, day |-> x.day]
NewDate(x) == [valid |-> x.given, day |-> x.day]

processEmailHandler(r) ==
    LET leadData == extractLeadFromEmail(r.body.from, r.body.subject,
                                         r.body.body)
        date == NewDate(r.body.receivedDate)
        row == LeadRow(seqs.leads + 1, leadData.name, leadData.email,
                       leadData.phone, leadData.vehicle, EmailSource,
                       leadData.notes, Medium, New, NullId, DefaultDealership,
                       date.day, now)
        bound == ~leadData.isNull /\ TablesExist /\ date.valid
        inserted == bound /\ LeadRowAccepted(row, dealerships, users)
    IN  /\ req' = r
        /\ res' = IF leadData.isNull
                  THEN Response(r.route, 400,
                           [success |-> FALSE,
                            message |-> Lit("Could not extract lead information from email")])
                  ELSE IF inserted
                  THEN Response(r.route, 201, [success |-> TRUE, lead |-> row])
                  ELSE Response(r.route, 500,
                                [error |-> Lit("Failed to process email")])
        /\ leads' = IF inserted THEN Append(leads, row) ELSE leads
        /\ seqs' = IF bound THEN [seqs EXCEPT !.leads = seqs.leads + 1]
                   ELSE seqs
        /\ UNCHANGED <<dealerships, users, localStorage>>

FromJD == <<"j", "_", "d", "@", "x", ".", "i", "o">>
SubjectHi == <<"H", "i">>
BodyToyotaPhone == <<"T", "o", "y", "o", "t", "a", " ", "5", "5", "5", "-", "1", "2", "3", "-", "4", "5", "6", "7">>
BodyPlain == <<"c", "a", "l", "l", " ", "m", "e">>
EmailTexts ==
    { <<FromJD, SubjectHi, BodyToyotaPhone>>,
      <<FromJD, Undefined, BodyToyotaPhone>>,
      <<FromJD, Undefined, BodyPlain>>,
      <<Undefined, SubjectHi, BodyPlain>> }
ProcessEmail ==
    /\ HandlerInserts < MaxInserts
    /\ \E t \in EmailTexts, d \in {NoDate, DateOn(now)} :
        /\ processEmailHandler(
               Request("POST /api/process-email", NoAuth, NoParams, NoQuery,
                       [from |-> t[1], subject |-> t[2], body |-> t[3],
                        receivedDate |-> d]))
        /\ Frame

(***************************************************************************)
(* GET /api/analytics                                                      *)
(***************************************************************************)
WeekDays == 7
MonthDays == 30
CountRows(rows) == Len(rows)

analyticsHandler(r) ==
    LET scoped == IF r.user.role = Admin
                  THEN leads
                  ELSE SelectSeq(leads, LAMBDA l :
                           SqlEqId(l.dealership_id,
                                   UserClaimId(r.user, "dealership_id")))
        statuses == {scoped[i].status : i \in 1..Len(scoped)}
    IN  /\ req' = r
        /\ res' =
             IF ~TablesExist
             THEN Response(r.route, 500, [error |-> Lit("Failed to get analytics")])
             ELSE Response(r.route, 200,
                      [totals |->
                          [total_leads |-> Len(scoped),
                           leads_this_week |->
                               CountRows(SelectSeq(scoped, LAMBDA l : l.created_at >= now - WeekDays)),
                           leads_this_month |->
                               CountRows(SelectSeq(scoped, LAMBDA l : l.created_at >= now - MonthDays))],
                       statusBreakdown |->
                          {[status |-> st,
                            count |-> CountRows(SelectSeq(scoped, LAMBDA l : l.status = st))]
                              : st \in statuses}])
        /\ UNCHANGED <<dealerships, users, leads, seqs, localStorage>>

Analytics ==
    \E h \in AuthHeaders :
        /\ LET r == Request("GET /api/analytics", h, NoParams, NoQuery, NoBody)
           IN  Protected(r, analyticsHandler(Authenticated(r)))
        /\ Frame

(***************************************************************************)
(* The clock, and the server with its database.                            *)
(***************************************************************************)
Tick ==
    /\ now < MaxDay
    /\ now' = now + 1
    /\ UNCHANGED <<dealerships, users, leads, seqs, seedRuns, localStorage, req, res,
                   hits, nodeEnv, buildExists, ext>>

NoRequest == [route |-> "none"]
NoResponse == [route |-> "none", status |-> 0, ran |-> FALSE, body |-> NoBody]
NoExt ==
    [from |-> Undefined, subject |-> Undefined, body |-> Undefined,
     called |-> FALSE, result |-> ExtractNull]

Init ==
    /\ dealerships = <<>>
    /\ users = <<>>
    /\ leads = <<>>
    /\ seqs = [dealerships |-> 0, users |-> 0, leads |-> 0]
    /\ seedRuns = 0
    /\ now = 0
    /\ localStorage = <<>>
    /\ req = NoRequest
    /\ res = NoResponse
    /\ hits = 0
    /\ nodeEnv = "development"
    /\ buildExists = FALSE
    /\ ext = NoExt

Next ==
    \/ Seed
    \/ Tick
    \/ Login
    \/ Profile
    \/ GetLeads
    \/ PostLead
    \/ PutLead
    \/ ProcessEmail
    \/ Analytics

Spec == Init /\ [][Next]_vars

(***************************************************************************)
(* The middleware in front of the routes, for one client address:          *)
(* app.use(limiter), in production the static catch-all registered before  *)
(* /health, /health itself, and the error-handling middleware.             *)
(***************************************************************************)
RateMax == 100                  \* max: 100 requests per window

\* express-rate-limit: the request is counted, then refused when the count
\* exceeds max
rateLimited(count) == count > RateMax

\* GET /health, once the limiter has let the request through.  In production
\* app.get('*') is registered first and answers with res.sendFile; when the
\* file is missing sendFile passes the error on and the error middleware
\* answers 500.
healthRoute(r) ==
    IF nodeEnv = "production"
    THEN IF buildExists
         THEN [route |-> r.route, status |-> 200, ran |-> FALSE,
               body |-> [file |-> Lit("client/build/index.html")]]
         ELSE [route |-> r.route, status |-> 500, ran |-> FALSE,
               body |-> [error |-> Lit("Internal server error")]]
    ELSE Response(r.route, 200, [status |-> Lit("OK"), timestamp |-> now])

Health ==
    LET r == Request("GET /health", NoAuth, NoParams, NoQuery, NoBody)
    IN  /\ hits < RateMax + MaxOver
        /\ hits' = hits + 1
        /\ req' = r
        /\ res' = IF rateLimited(hits')
                  THEN [route |-> r.route, status |-> 429, ran |-> FALSE,
                        body |-> [message |-> Lit("Too many requests, please try again later.")]]
                  ELSE healthRoute(r)
        /\ UNCHANGED <<dealerships, users, leads, seqs, seedRuns, now,
                       localStorage, nodeEnv, buildExists, ext>>

\* a request of the same client to any other route: the limiter counts it
OtherRoute ==
    /\ hits < RateMax + MaxOver
    /\ hits' = hits + 1
    /\ UNCHANGED <<dealerships, users, leads, seqs, seedRuns, now,
                   localStorage, req, res, nodeEnv, buildExists, ext>>

\* windowMs has passed: the client's count starts again
WindowReset ==
    /\ hits > 0
    /\ hits' = 0
    /\ UNCHANGED <<dealerships, users, leads, seqs, seedRuns, now,
                   localStorage, req, res, nodeEnv, buildExists, ext>>

MwInit ==
    /\ dealerships = <<>>
    /\ users = <<>>
    /\ leads = <<>>
    /\ seqs = [dealerships |-> 0, users |-> 0, leads |-> 0]
    /\ seedRuns = 0
    /\ now = 0
    /\ localStorage = <<>>
    /\ req = NoRequest
    /\ res = NoResponse
    /\ hits = 0
    /\ nodeEnv \in {"development", "production"}
    /\ buildExists \in BOOLEAN
    /\ ext = NoExt

MwNext ==
    \/ Health
    \/ OtherRoute
    \/ WindowReset

MwSpec == MwInit /\ [][MwNext]_vars

(***************************************************************************)
(* The extractor on its own: the arguments are drawn from ExtFroms,        *)
(* ExtSubjects and ExtBodies, and one step calls it.                       *)
(***************************************************************************)
FromNoAt == <<"s", "a", "l", "e", "s", ".", "t", "e", "a", "m">>
FromDisplay == <<"J", " ", "D", " ", "<", "j", ".", "d", "@", "x", ".", "i", "o", ">">>
SubjectHondaToy == <<"H", "O", "N", "D", "A", " ", "t", "o", "y">>
SubjectAudi == <<"A", "u", "d", "i", "?">>
BodyOtaFord == <<"o", "t", "a", " ", "f", "o", "r", "d", " ", "H", "o", "n", "d", "a">>
BodyFordToyota == <<"F", "o", "r", "d", " ", "o", "r", " ", "T", "O", "Y", "O", "T", "A", " ", "5", "5", "5", "1", "2", "3", "4", "5", "6", "7">>
\* bodies of 501 and of exactly 500 characters; the last one differs
BodyLong == [i \in 1..(BodyPrefixLen + 1) |-> IF i <= BodyPrefixLen THEN "a" ELSE "z"]
Body500 == [i \in 1..BodyPrefixLen |-> IF i < BodyPrefixLen THEN "b" ELSE "y"]
ExtFroms == {Undefined, JsNull, FromJD, FromNoAt, FromDisplay}
ExtSubjects == {Undefined, JsNull, SubjectHi, SubjectHondaToy, SubjectAudi, <<>>}
ExtBodies ==
    {Undefined, JsNull, BodyToyotaPhone, BodyPlain, BodyOtaFord,
     BodyFordToyota, <<>>, BodyLong, Body500}

ExtInit ==
    /\ dealerships = <<>>
    /\ users = <<>>
    /\ leads = <<>>
    /\ seqs = [dealerships |-> 0, users |-> 0, leads |-> 0]
    /\ seedRuns = 0
    /\ now = 0
    /\ localStorage = <<>>
    /\ req = NoRequest
    /\ res = NoResponse
    /\ hits = 0
    /\ nodeEnv = "development"
    /\ buildExists = FALSE
    /\ \E f \in ExtFroms, sub \in ExtSubjects, b \in ExtBodies :
           ext = [from |-> f, subject |-> sub, body |-> b, called |-> FALSE,
                  result |-> ExtractNull]

ExtCall ==
    /\ ~ext.called
    /\ ext' = [ext EXCEPT !.called = TRUE,
                          !.result = extractLeadFromEmail(ext.from, ext.subject,
                                                          ext.body)]
    /\ UNCHANGED <<dealerships, users, leads, seqs, seedRuns, now, localStorage,
                   req, res, hits, nodeEnv, buildExists>>

ExtNext == ExtCall

ExtractSpec == ExtInit /\ [][ExtNext]_vars

(***************************************************************************)
(* The claims.                                                             *)
(***************************************************************************)
\* the dealership_id stored for the user with this id (NullId: no such user)
StoredDealershipId(us, uid) ==
    LET rows == UserById(us, uid)
    IN  IF Len(rows) = 0 THEN NullId ELSE rows[1].dealership_id
\* ls2 is ls with exactly one row appended
OneLeadAdded(ls, ls2) ==
    Len(ls2) = Len(ls) + 1 /\ SubSeq(ls2, 1, Len(ls)) = ls
NewestLead(ls) == ls[Len(ls)]
CarriesToken(response) == "token" \in DOMAIN response.body
DbUnchanged == UNCHANGED <<dealerships, users, leads, seqs, seedRuns>>

\* C1: a non-admin's GET /api/leads answers only with leads whose
\* dealership_id is the dealership_id stored for that user, whatever
\* dealership_id and status the query carries.
C1_NonAdminGetsOwnDealershipOnly ==
    [][(GetLeads /\ res'.ran /\ res'.status = 200 /\ req'.user.role # Admin)
        => \A l \in res'.body :
              l.dealership_id = StoredDealershipId(users, req'.user.userId)]_vars

\* C1 witness: the sales rep, stored in dealership 2, has asked for the leads
\* of dealership 1, which has leads, and got an answer.
C1_Witness ==
    /\ res.route = "GET /api/leads" /\ res.ran /\ res.status = 200
    /\ req.user.role = SalesRep
    /\ req.query.dealership_id = 1
    /\ StoredDealershipId(users, req.user.userId) = 2
    /\ \E l \in Range(leads) : l.dealership_id = 1

\* C2: a successful POST /api/leads inserts exactly one lead, in the
\* dealership stored for the caller, with status 'new' and the request's
\* priority ('medium' when the request has none or an empty one), and
\* answers 201 with it.
C2_PostInsertsLeadInCallersDealership ==
    [][(PostLead /\ res'.ran /\ res'.status = 201)
        => /\ OneLeadAdded(leads, leads')
           /\ res'.body = NewestLead(leads')
           /\ NewestLead(leads').dealership_id
                  = StoredDealershipId(users, req'.user.userId)
           /\ NewestLead(leads').status = New
           /\ NewestLead(leads').priority
                  = IF Truthy(req'.body.priority) THEN req'.body.priority
                    ELSE Medium]_vars

\* C3: an authenticated PUT /api/leads/:id updates and returns (200) the lead
\* with that id when the caller's stored dealership has it, and otherwise
\* answers 404 and changes no lead.
C3_PutUpdatesOwnLeadElse404 ==
    [][(PutLead /\ res'.ran)
        => IF \E l \in Range(leads) :
                  /\ l.id = req'.params.id
                  /\ l.dealership_id = StoredDealershipId(users, req'.user.userId)
                  /\ l.dealership_id # NullId
           THEN res'.status = 200 /\ res'.body.id = req'.params.id
           ELSE res'.status = 404 /\ leads' = leads]_vars

\* C4: however often the seed script has run, there is exactly one
\* dealership named 'AutoClick Motors' and each sample lead is there once.
C4_ReseedingDuplicatesNothing ==
    seedRuns >= 1 =>
        /\ Cardinality({i \in 1..Len(dealerships) :
                           dealerships[i].name = SeedDealershipName}) = 1
        /\ \A k \in 1..Len(sampleLeads) :
               Cardinality({i \in 1..Len(leads) :
                               /\ leads[i].customer_name = sampleLeads[k].name
                               /\ leads[i].customer_email = sampleLeads[k].email}) = 1

\* C5: every lead with both assigned_to and dealership_id set has the
\* dealership_id of the user it is assigned to.
C5_LeadDealershipIsAssigneesDealership ==
    \A i \in 1..Len(leads) :
        (leads[i].assigned_to # NullId /\ leads[i].dealership_id # NullId)
            => leads[i].dealership_id
                   = StoredDealershipId(users, leads[i].assigned_to)

\* the user row the login's email selects, and whether the password is the
\* one its hash was made from
LoginRows(r) == UserByEmail(users, r.body.email)
LoginMatches(r) ==
    /\ Len(LoginRows(r)) > 0
    /\ ~Nullish(r.body.password)
    /\ LoginRows(r)[1].password.of = r.body.password
TokenIsFor(token, user) ==
    /\ JwtDecoded(token).userId = user.id
    /\ JwtDecoded(token).email = user.email
    /\ JwtDecoded(token).role = user.role

ProtectedRoute == Profile \/ GetLeads \/ PostLead \/ PutLead \/ Analytics
SentToken(r) == r.authorization.given /\ Len(r.authorization.rest) >= 1
TokenOf(r) == r.authorization.rest[1]
TokenVerifies(t, day) == t.sig = GoodSig /\ day < t.iat + TokenDays

ExtractedFrom(r) ==
    extractLeadFromEmail(r.body.from, r.body.subject, r.body.body)
EmailLeadInserted(ls, ls2, response) ==
    /\ response.status = 201
    /\ OneLeadAdded(ls, ls2)
    /\ response.body.lead = NewestLead(ls2)
    /\ NewestLead(ls2).source = EmailSource
    /\ NewestLead(ls2).status = New
    /\ NewestLead(ls2).priority = Medium

C9_HealthAlways200 == res.route = "GET /health" => res.status = 200

\* C10: whenever from, subject or body is undefined or null, the extractor's
\* result is null.
C10_NullArgumentGivesNull ==
    (ext.called /\ (Nullish(ext.from) \/ Nullish(ext.subject) \/ Nullish(ext.body)))
        => ext.result.isNull

\* word occurs in text at offset i, letter case apart
OccursAt(word, text, i) ==
    /\ i + Len(word) <= Len(text)
    /\ \A j \in 1..Len(word) : ToLowerChar(text[i + j]) = word[j]
OccursIn(word, text) == \E i \in 0..Len(text) : OccursAt(word, text, i)
StringArguments ==
    ~Nullish(ext.from) /\ ~Nullish(ext.subject) /\ ~Nullish(ext.body)

\* C11 (as claimed): for string inputs the vehicle field is the first
\* keyword, in the order toyota, honda, ford, chevrolet, nissan, bmw,
\* mercedes, audi, that occurs case-insensitively in the concatenation of
\* subject and body, and 'Not specified' when no keyword occurs there.
C11_VehicleIsFirstKeywordOfConcatenation ==
    (ext.called /\ StringArguments)
        => LET text == ext.subject \o ext.body
               ks == {k \in 1..Len(vehicles) : OccursIn(vehicles[k], text)}
           IN  /\ ~ext.result.isNull
               /\ ext.result.vehicle =
                     IF ks = {} THEN NotSpecified
                     ELSE vehicles[CHOOSE k \in ks : \A m \in ks : k <= m]

\* C11 (amended): for string inputs the vehicle field is the first keyword,
\* in the same order, that occurs case-insensitively in subject or in body,
\* each searched on its own (a keyword that only arises where the end of
\* subject meets the start of body does not count), and 'Not specified'
\* when no keyword occurs in either.
C11_VehicleIsFirstKeywordOfSubjectOrBody ==
    (ext.called /\ StringArguments)
        => LET ks == {k \in 1..Len(vehicles) :
                         \/ OccursIn(vehicles[k], ext.subject)
                         \/ OccursIn(vehicles[k], ext.body)}
           IN  /\ ~ext.result.isNull
               /\ ext.result.vehicle =
                     IF ks = {} THEN NotSpecified
                     ELSE vehicles[CHOOSE k \in ks : \A m \in ks : k <= m]

\* subject ends 'toy', body starts 'ota' and goes on to name ford and honda:
\* the answer is honda, the first keyword found in either text
C11_Witness ==
    /\ ext.called /\ StringArguments
    /\ ext.subject = SubjectHondaToy /\ ext.body = BodyOtaFord
    /\ ext.result.vehicle = vehicles[2]

\* C12: for string inputs the notes field holds the subject text, followed
\* by the first min(500, length of body) characters of body, followed by the
\* marker '...'; the marker is there for a body shorter than 500 characters
\* as well as for a longer one.
C12_NotesSubjectPrefixMarker ==
    (ext.called /\ StringArguments)
        => LET n == ext.result.notes
               s == Len(ext.subject)
               p == IF Len(ext.body) < 500 THEN Len(ext.body) ELSE 500
           IN  /\ ~ext.result.isNull
               /\ Len(n) = s + p + 3
               /\ n[1] = "Email Subject: "
               /\ SubSeq(n, 2, s + 1) = ext.subject
               /\ n[s + 2] = "\n\nEmail Body: "
               /\ \A i \in 1..p : n[s + 2 + i] = ext.body[i]
               /\ n[s + p + 3] = "..."

\* a body of 501 characters: 500 of them are kept, then the marker
C12_Witness ==
    /\ ext.called /\ StringArguments
    /\ Len(ext.body) = 501 /\ ext.subject = SubjectAudi
    /\ Len(ext.result.notes) = Len(SubjectAudi) + 503
    /\ ext.result.notes[Len(ext.result.notes)] = "..."
    /\ ext.result.notes[Len(ext.result.notes) - 1] = "a"

\* the columns a PUT may set from text in the request body
PutTextFields ==
    {"customer_name", "customer_email", "customer_phone", "vehicle_interest",
     "status", "notes", "priority"}

\* C13: a PUT /api/leads/:id that matches a lead (the lead with that id, in
\* the caller's dealership) sets each of customer_name, customer_email,
\* customer_phone, vehicle_interest, status, notes, priority and assigned_to
\* to the request's value when the request provides it and keeps the
\* existing value when it does not; the lead's id, source, dealership_id and
\* created_at, and every field of every other lead, are unchanged.
C13_PutSetsProvidedFieldsOnly ==
    [][(PutLead /\ res'.ran)
        => /\ Len(leads') = Len(leads)
           /\ \A i \in 1..Len(leads) :
                 IF /\ leads[i].id = req'.params.id
                    /\ leads[i].dealership_id
                          = StoredDealershipId(users, req'.user.userId)
                    /\ leads[i].dealership_id # NullId
                 THEN /\ \A f \in PutTextFields :
                            leads'[i][f] = IF req'.body[f] # Undefined
                                           THEN req'.body[f] ELSE leads[i][f]
                      /\ leads'[i].assigned_to
                            = IF req'.body.assigned_to # NullId
                              THEN req'.body.assigned_to
                              ELSE leads[i].assigned_to
                      /\ leads'[i].id = leads[i].id
                      /\ leads'[i].source = leads[i].source
                      /\ leads'[i].dealership_id = leads[i].dealership_id
                      /\ leads'[i].created_at = leads[i].created_at
                 ELSE leads'[i] = leads[i]]_vars

====
